---------------------------- MODULE Spec2Model ----------------------------
(***************************************************************************)
(* A model of IslandJSON: the UTF-8 codec (decode.c, ustring.c), the       *)
(* string-escape decoder (escape.c), the string printer (printing.c), the  *)
(* value tree's object API and the parse entry point (json.c).             *)
(*                                                                         *)
(* Bytes are the integers 0..255, a C buffer is a sequence of bytes and a  *)
(* pointer into it is a 0-based offset: the byte at offset p is buf[p+1].  *)
(* The C bit operations are written arithmetically, each with the C        *)
(* expression it stands for beside it.                                     *)
(***************************************************************************)
EXTENDS Integers, Sequences, FiniteSets, TLC

VARIABLES
    buf,        \* decode_next_UTF8: the byte buffer
    end,        \* decode_next_UTF8: offset of `end`
    ptr,        \* decode_next_UTF8: offset of `*ptr`
    code,       \* decode_next_UTF8: the caller's `*out`
    dec,        \* the last decode_next_UTF8 call: [called, at, ret]
    dst,        \* struct ustring: [data, capacity, null]
    push,       \* the last ustring_push call: [called, code, ret, before]
    text,       \* json_unescape_string: the bytes at `start`
    err,        \* json_unescape_string: the caller's `*error`
    unesc,      \* the last json_unescape_string call
    str,        \* json_print_string: the NUL-terminated `text` argument
    printed,    \* json_print_string: the bytes written between the quotes
    json,       \* the struct json handed to json_object_add
    call,       \* the last json_object_add call
    input,      \* json_parse: the tokens of the text behind `in`
    json_root,  \* the parser's global result pointer
    heap,       \* the trees json_parse calls built: id -> "live" | "freed"
    parse       \* the last json_parse call

utf8Vars   == <<buf, end, ptr, code, dec>>
ustrVars   == <<dst, push>>
escVars    == <<text, err, unesc>>
printVars  == <<str, printed>>
treeVars   == <<json, call>>
parseVars  == <<input, json_root, heap, parse>>
vars == <<utf8Vars, ustrVars, escVars, printVars, treeVars, parseVars>>

(***************************************************************************)
(* Bounded sequences.                                                      *)
(***************************************************************************)
SeqsUpTo(S, n) == UNION {[1..k -> S] : k \in 0..n}

Drop(s, n) == SubSeq(s, n + 1, Len(s))

Take(s, n) == SubSeq(s, 1, n)

(***************************************************************************)
(* decode.c                                                                *)
(***************************************************************************)
\* (c & 0xC0) == 0x80
IsContinuation(c) == c - (c % 64) = 128

\* `return false`: *ptr and *out are not written
Fail(p) == [ok |-> FALSE, ptr |-> p]

\* `*ptr = p; *out = code; return true`
Done(p, c) == [ok |-> TRUE, ptr |-> p, code |-> c]

decode_2byte_UTF8(b, p, e) ==
    IF p >= e THEN Fail(p)
    ELSE IF e - p < 2 THEN Fail(p)
    ELSE LET c0 == b[p + 1]
             c1 == b[p + 2]
             \* ((c0 & 0x1F) << 6) | (c1 & 0x3F)
             cp == (c0 % 32) * 64 + (c1 % 64)
         IN  IF ~IsContinuation(c1) THEN Fail(p)
             ELSE IF cp < 128 THEN Fail(p)
             ELSE Done(p + 2, cp)

\* decode_3byte_UTF8 without its surrogate test
decode_3byte_UTF8_NoSurrogateTest(b, p, e) ==
    IF p >= e THEN Fail(p)
    ELSE IF e - p < 3 THEN Fail(p)
    ELSE LET c0 == b[p + 1]
             c1 == b[p + 2]
             c2 == b[p + 3]
             cp == (c0 % 16) * 4096 + (c1 % 64) * 64 + (c2 % 64)
         IN  IF ~IsContinuation(c1) \/ ~IsContinuation(c2) THEN Fail(p)
             ELSE IF cp < 2048 THEN Fail(p)
             ELSE Done(p + 3, cp)

decode_3byte_UTF8(b, p, e) ==
    IF p >= e THEN Fail(p)
    ELSE IF e - p < 3 THEN Fail(p)
    ELSE LET c0 == b[p + 1]
             c1 == b[p + 2]
             c2 == b[p + 3]
             \* ((c0 & 0x0F) << 12) | ((c1 & 0x3F) << 6) | (c2 & 0x3F)
             cp == (c0 % 16) * 4096 + (c1 % 64) * 64 + (c2 % 64)
         IN  IF ~IsContinuation(c1) \/ ~IsContinuation(c2) THEN Fail(p)
             ELSE IF cp < 2048 THEN Fail(p)
             ELSE IF cp >= 55296 /\ cp <= 57343 THEN Fail(p)
             ELSE Done(p + 3, cp)

decode_4byte_UTF8(b, p, e) ==
    IF p >= e THEN Fail(p)
    ELSE IF e - p < 4 THEN Fail(p)
    ELSE LET c0 == b[p + 1]
             c1 == b[p + 2]
             c2 == b[p + 3]
             c3 == b[p + 4]
             \* ((c0 & 0x07) << 18) | ((c1 & 0x3F) << 12)
             \*   | ((c2 & 0x3F) << 6) | (c3 & 0x3F)
             cp == (c0 % 8) * 262144 + (c1 % 64) * 4096
                     + (c2 % 64) * 64 + (c3 % 64)
         IN  IF ~IsContinuation(c1) \/ ~IsContinuation(c2)
                    \/ ~IsContinuation(c3) THEN Fail(p)
             ELSE IF cp < 65536 THEN Fail(p)
             ELSE IF cp > 1114111 THEN Fail(p)
             ELSE Done(p + 4, cp)

decode_next_UTF8(b, p, e) ==
    IF p >= e THEN Fail(p)
    ELSE LET c0 == b[p + 1]
         IN  IF c0 < 128 THEN Done(p + 1, c0)
             \* (c0 & 0xE0) == 0xC0
             ELSE IF c0 - (c0 % 32) = 192 THEN decode_2byte_UTF8(b, p, e)
             \* (c0 & 0xF0) == 0xE0
             ELSE IF c0 - (c0 % 16) = 224 THEN decode_3byte_UTF8(b, p, e)
             \* (c0 & 0xF8) == 0xF0
             ELSE IF c0 - (c0 % 8) = 240 THEN decode_4byte_UTF8(b, p, e)
             ELSE Fail(p)

(***************************************************************************)
(* ustring.c.  A struct ustring is [data, capacity, null]: data holds the  *)
(* `length` bytes written so far (length is Len(data)), null says that the *)
(* data pointer is NULL.  size_t is modelled with 31 bits, the widest      *)
(* integer TLC has; no length the model reaches comes near it.             *)
(***************************************************************************)
SIZE_MAX == 2147483647

InitialCapacity == 16

\* sizeof(struct json *)
PointerSize == 8

ArrayInitialCapacity == 8

RECURSIVE GrowRequest(_, _, _)
\* while (request < n) request = (request > max / 2) ? max : request * 2;
GrowRequest(request, n, max) ==
    IF request < n
    THEN GrowRequest(IF request > max \div 2 THEN max ELSE request * 2, n, max)
    ELSE request

\* alloc: whether realloc, if it is called, returns a block
ustring_reserve(u, n, alloc) ==
    LET max == SIZE_MAX
    IN  IF n <= u.capacity THEN [ok |-> TRUE, u |-> u]
        ELSE IF n > max THEN [ok |-> FALSE, u |-> u]
        ELSE IF ~alloc THEN [ok |-> FALSE, u |-> u]
        ELSE [ok |-> TRUE,
              u  |-> [u EXCEPT
                        !.capacity = GrowRequest(
                            IF u.capacity # 0 THEN u.capacity
                            ELSE InitialCapacity, n, max),
                        !.null = FALSE]]

ustring_new(capacity, alloc) ==
    ustring_reserve([data |-> <<>>, capacity |-> 0, null |-> TRUE],
                    capacity, alloc)

\* EncodedBytes with the two-byte form used up to 0xFFF (a wrong bound in the
\* second test)
EncodedBytes_WideTwoByte(c) ==
    IF c <= 127 THEN <<c>>
    ELSE IF c <= 4095
    THEN <<192 + ((c \div 64) % 32), 128 + (c % 64)>>
    ELSE IF c <= 65535
    THEN <<224 + ((c \div 4096) % 16), 128 + ((c \div 64) % 64), 128 + (c % 64)>>
    ELSE IF c <= 1114111
    THEN <<240 + ((c \div 262144) % 8), 128 + ((c \div 4096) % 64),
           128 + ((c \div 64) % 64), 128 + (c % 64)>>
    ELSE <<>>

\* the bytes[] and count that ustring_push computes for `code`
EncodedBytes(c) ==
    IF c <= 127 THEN <<c>>
    ELSE IF c <= 2047
    THEN <<192 + ((c \div 64) % 32),          \* 0xC0 | ((code >> 6) & 0x1F)
           128 + (c % 64)>>                     \* 0x80 | (code & 0x3F)
    ELSE IF c <= 65535
    THEN <<224 + ((c \div 4096) % 16),        \* 0xE0 | ((code >> 12) & 0x0F)
           128 + ((c \div 64) % 64),          \* 0x80 | ((code >> 6) & 0x3F)
           128 + (c % 64)>>
    ELSE IF c <= 1114111
    THEN <<240 + ((c \div 262144) % 8),       \* 0xF0 | ((code >> 18) & 0x07)
           128 + ((c \div 4096) % 64),        \* 0x80 | ((code >> 12) & 0x3F)
           128 + ((c \div 64) % 64),
           128 + (c % 64)>>
    ELSE <<>>

ustring_push(u, c, alloc) ==
    LET bytes == EncodedBytes(c)
        count == Len(bytes)
    IN  IF c > 1114111 THEN [ok |-> FALSE, u |-> u]
        ELSE IF count + 1 > SIZE_MAX - Len(u.data) THEN [ok |-> FALSE, u |-> u]
        ELSE LET r == ustring_reserve(u, Len(u.data) + count + 1, alloc)
             IN  IF ~r.ok THEN [ok |-> FALSE, u |-> u]
                 ELSE [ok |-> TRUE,
                       u  |-> [r.u EXCEPT !.data = u.data \o bytes]]

\* the returned pointer: NULL, or the buffer (its first `length` bytes; the
\* byte after them is the terminator ustring_push wrote)
ustring_take_string(u) ==
    IF u.null THEN [null |-> TRUE, data |-> <<>>]
    ELSE [null |-> FALSE, data |-> u.data]

(***************************************************************************)
(* escape.c.  `src` and `end` are offsets into the bytes t at `start`.     *)
(***************************************************************************)
Backslash == 92

\* int read_hex(uint8_t c)
read_hex(c) ==
    IF c >= 48 /\ c <= 57 THEN c - 48              \* '0'..'9'
    ELSE IF c >= 97 /\ c <= 102 THEN c - 97 + 10   \* 'a'..'f'
    ELSE IF c >= 65 /\ c <= 70 THEN c - 65 + 10    \* 'A'..'F'
    ELSE -1

RECURSIVE read_u16_loop(_, _, _, _)
\* for (i = 0; i < 4; i++): the digit at *src is read, src advanced, then
\* the digit is tested
read_u16_loop(t, src, i, acc) ==
    IF i = 4 THEN [code |-> acc, src |-> src]
    ELSE LET digit == read_hex(t[src + 1])
         IN  IF digit < 0 THEN [code |-> -1, src |-> src + 1]
             ELSE read_u16_loop(t, src + 1, i + 1, acc * 16 + digit)

read_u16(t, src, e) ==
    IF src + 4 > e THEN [code |-> -1, src |-> src]
    ELSE read_u16_loop(t, src, 0, 0)

\* read_utf16 that takes any code unit as the second of a pair
read_utf16_NoPairRangeTest(t, src, e) ==
    LET first == read_u16(t, src, e)
    IN  IF first.code < 0 THEN first
        ELSE IF first.code < 55296 THEN first
        ELSE IF first.code <= 56319
        THEN IF first.src + 2 > e THEN [code |-> -1, src |-> first.src]
             ELSE IF t[first.src + 1] # Backslash
             THEN [code |-> -1, src |-> first.src + 1]
             ELSE IF t[first.src + 2] # 117                      \* 'u'
             THEN [code |-> -1, src |-> first.src + 2]
             ELSE LET pair == read_u16(t, first.src + 2, e)
                  IN  IF pair.code < 0 THEN pair
                      ELSE [code |-> 65536 + (first.code - 55296) * 1024
                                        + (pair.code - 56320),
                            src  |-> pair.src]
        ELSE [code |-> -1, src |-> first.src]

\* int read_utf16(const uint8_t **src, const uint8_t *end)
read_utf16(t, src, e) ==
    LET first == read_u16(t, src, e)
    IN  IF first.code < 0 THEN first
        ELSE IF first.code < 55296 THEN first
        ELSE IF first.code <= 56319
        THEN IF first.src + 2 > e THEN [code |-> -1, src |-> first.src]
             ELSE IF t[first.src + 1] # Backslash
             THEN [code |-> -1, src |-> first.src + 1]
             ELSE IF t[first.src + 2] # 117                      \* 'u'
             THEN [code |-> -1, src |-> first.src + 2]
             ELSE LET pair == read_u16(t, first.src + 2, e)
                  IN  IF pair.code < 0 THEN pair
                      ELSE IF pair.code < 56320 \/ pair.code > 57343
                      THEN [code |-> -1, src |-> pair.src]
                      ELSE [code |-> 65536 + (first.code - 55296) * 1024
                                        + (pair.code - 56320),
                            src  |-> pair.src]
        ELSE [code |-> -1, src |-> first.src]

\* SimpleEscape with the cases of 'n' and 'r' exchanged
SimpleEscape_SwappedNR(c) ==
    CASE c = 34  -> 34
      [] c = 92  -> 92
      [] c = 47  -> 47
      [] c = 98  -> 8
      [] c = 102 -> 12
      [] c = 110 -> 13
      [] c = 114 -> 10
      [] c = 116 -> 9
      [] OTHER   -> -1

\* switch (c) of json_unescape_string: the code of a two-character escape,
\* or -1 for the default branch
SimpleEscape(c) ==
    CASE c = 34  -> 34      \* '"'
      [] c = 92  -> 92      \* '\\'
      [] c = 47  -> 47      \* '/'
      [] c = 98  -> 8       \* 'b' -> '\b'
      [] c = 102 -> 12      \* 'f' -> '\f'
      [] c = 110 -> 10      \* 'n' -> '\n'
      [] c = 114 -> 13      \* 'r' -> '\r'
      [] c = 116 -> 9       \* 't' -> '\t'
      [] OTHER   -> -1

\* a return of NULL from json_unescape_string; error is what was stored in
\* *error, "unwritten" when nothing was, src the offset `src` had reached
Rejected(error, src) ==
    [ret |-> "NULL", data |-> <<>>, error |-> error, src |-> src]

RECURSIVE unescape_loop(_, _, _, _)
\* while (src < end) { ... } and the return after it
unescape_loop(t, src, e, result) ==
    IF src >= e
    THEN LET string == ustring_take_string(result)
         IN  [ret   |-> IF string.null THEN "NULL" ELSE "string",
              data  |-> string.data,
              error |-> "JSON_SUCCESS",
              src   |-> src]
    ELSE IF t[src + 1] = Backslash /\ src + 1 < e
    THEN LET c == t[src + 2]
         IN  IF c = 117                                          \* 'u'
             THEN LET r == read_utf16(t, src + 2, e)
                  IN  IF r.code < 0
                      THEN Rejected("JSON_INVALID_UNICODE", r.src)
                      ELSE LET pushed == ustring_push(result, r.code, TRUE)
                           IN  IF ~pushed.ok THEN Rejected("unwritten", r.src)
                               ELSE unescape_loop(t, r.src, e, pushed.u)
             ELSE IF SimpleEscape(c) < 0
             THEN Rejected("JSON_INVALID_ESCAPE", src + 2)
             ELSE LET pushed == ustring_push(result, SimpleEscape(c), TRUE)
                  IN  IF ~pushed.ok THEN Rejected("unwritten", src + 2)
                      ELSE unescape_loop(t, src + 2, e, pushed.u)
    ELSE LET pushed == ustring_push(result, t[src + 1], TRUE)    \* code = *src++
         IN  IF ~pushed.ok THEN Rejected("unwritten", src + 1)
             ELSE unescape_loop(t, src + 1, e, pushed.u)

\* json_unescape_string(start, length, error) with the bytes t at start and
\* memory available; the result is [ret, data, error, src]: ret says
\* whether NULL or a string is returned, data is the bytes the decoder
\* produced into it, error is the status stored through a non-NULL `error`,
\* src is the offset `src` had when the call returned (every byte the call
\* read lies before it)
json_unescape_string(t, length) ==
    LET result == ustring_new(length, TRUE)
    IN  IF ~result.ok THEN Rejected("unwritten", 0)
        ELSE unescape_loop(t, 0, length, result.u)

\* the C string behind a returned buffer: its bytes up to the first NUL
RECURSIVE CString(_)
CString(data) ==
    IF data = <<>> \/ Head(data) = 0 THEN <<>>
    ELSE <<Head(data)>> \o CString(Tail(data))

(***************************************************************************)
(* printing.c: json_print_string.  The bytes written to `out` are the      *)
(* result; t is the C string `text`, its bytes before the terminator.      *)
(***************************************************************************)
\* one digit of %04X
HexDigit(d) == IF d < 10 THEN 48 + d ELSE 55 + d

\* "\\u%04X" of a 16-bit value
EscapedUnit(u) ==
    <<Backslash, 117, HexDigit(u \div 4096), HexDigit((u \div 256) % 16),
      HexDigit((u \div 16) % 16), HexDigit(u % 16)>>

json_print_escaped(c) ==
    IF c <= 65535 THEN EscapedUnit(c)
    ELSE LET v  == c - 65536
             hi == 55296 + (v \div 1024)       \* 0xD800 + (v >> 10)
             lo == 56320 + (v % 1024)          \* 0xDC00 + (v & 0x3FF)
         IN  EscapedUnit(hi) \o EscapedUnit(lo)

json_print_question_mark(ascii) ==
    IF ascii THEN <<Backslash, 117, 70, 70, 70, 68>>    \* "\\uFFFD"
    ELSE <<239, 191, 189>>

RECURSIVE SkipContinuations_NoLimit(_, _, _, _)
\* the skipping loop without the test skips < 3
SkipContinuations_NoLimit(t, p, e, skips) ==
    IF p < e /\ IsContinuation(t[p + 1])
    THEN SkipContinuations_NoLimit(t, p + 1, e, skips + 1)
    ELSE p

RECURSIVE SkipContinuations(_, _, _, _)
\* while ((skips < 3) && (p < end) && ((*p & 0xC0) == 0x80)) { p++; skips++; }
SkipContinuations(t, p, e, skips) ==
    IF skips < 3 /\ p < e /\ IsContinuation(t[p + 1])
    THEN SkipContinuations(t, p + 1, e, skips + 1)
    ELSE p

\* what one decoded code point is printed as; bytes are the bytes it was
\* decoded from
PrintedCode(c, bytes, ascii) ==
    CASE c = 34 -> <<Backslash, 34>>
      [] c = 92 -> <<Backslash, Backslash>>
      [] c = 8  -> <<Backslash, 98>>
      [] c = 12 -> <<Backslash, 102>>
      [] c = 10 -> <<Backslash, 110>>
      [] c = 13 -> <<Backslash, 114>>
      [] c = 9  -> <<Backslash, 116>>
      [] OTHER  -> IF c < 32 THEN json_print_escaped(c)
                   ELSE IF ascii /\ c >= 128 THEN json_print_escaped(c)
                   ELSE bytes

RECURSIVE print_string_loop(_, _, _, _, _)
\* for (p = text; *p; ) { ... }: p past the last byte reads the terminator
print_string_loop(t, p, e, ascii, out) ==
    IF p >= Len(t) THEN out
    ELSE LET r == decode_next_UTF8(t, p, e)
         IN  IF ~r.ok
             THEN print_string_loop(t, SkipContinuations(t, p + 1, e, 0), e,
                                    ascii, out \o json_print_question_mark(ascii))
             ELSE print_string_loop(t, r.ptr, e, ascii,
                      out \o PrintedCode(r.code, SubSeq(t, p + 1, r.ptr), ascii))

\* one iteration of the for loop with the cursor at p, not at the
\* terminator: the cursor afterwards, whether the decode succeeded, the code
\* decoded and the bytes written
print_string_iteration(t, p, e, ascii) ==
    LET r == decode_next_UTF8(t, p, e)
    IN  IF ~r.ok
        THEN [p |-> SkipContinuations(t, p + 1, e, 0), ok |-> FALSE,
              code |-> 0, wrote |-> json_print_question_mark(ascii)]
        ELSE [p |-> r.ptr, ok |-> TRUE, code |-> r.code,
              wrote |-> PrintedCode(r.code, SubSeq(t, p + 1, r.ptr), ascii)]

\* the bytes json_print_string writes between the two quotes
json_print_string(t, ascii) ==
    print_string_loop(t, 0, Len(t), ascii, <<>>)

\* static bool object_contains_object_or_array(const struct json_object *)
object_contains_object_or_array(object) ==
    \E i \in 1..Len(object.members) :
        object.members[i].value.type \in {"JSON_TYPE_OBJECT", "JSON_TYPE_ARRAY"}

\* array_contains_object_or_array that looks at the first element only
array_contains_object_or_array_FirstOnly(array) ==
    /\ array.count > 0
    /\ array.items[1].type \in {"JSON_TYPE_OBJECT", "JSON_TYPE_ARRAY"}

\* static bool array_contains_object_or_array(const struct json_array *)
array_contains_object_or_array(array) ==
    \E i \in 1..array.count :
        array.items[i].type \in {"JSON_TYPE_OBJECT", "JSON_TYPE_ARRAY"}

\* print_indent(out, indent): indent spaces
print_indent(indent) == [i \in 1..indent |-> 32]

RECURSIVE Decimal(_)
\* the decimal digits of a natural number
Decimal(n) ==
    IF n < 10 THEN <<48 + n>> ELSE Decimal(n \div 10) \o <<48 + (n % 10)>>

\* a number printed with the fewest digits that read back as the number
PrintedNumber_Shortest(number) == Decimal(number)

\* fprintf(out, "%f", number) for a number that is a natural number
PrintedNumber(number) == Decimal(number) \o <<46, 48, 48, 48, 48, 48, 48>>

\* "true", "false", "null"
TrueText == <<116, 114, 117, 101>>

FalseText == <<102, 97, 108, 115, 101>>

NullText == <<110, 117, 108, 108>>

RECURSIVE json_print_indent(_, _), print_members(_, _, _, _),
          print_items(_, _, _, _)
\* the body of the for loop of print_object from the i-th member on
print_members(members, i, multi, indent) ==
    IF i > Len(members) THEN <<>>
    ELSE (IF multi THEN print_indent(indent + 2) ELSE <<>>)
         \o <<34>> \o json_print_string(members[i].key, FALSE) \o <<34>>
         \o <<58, 32>>                                           \* ": "
         \o json_print_indent(members[i].value, indent + 2)
         \o (IF i < Len(members) THEN <<44, 32>> ELSE <<>>)      \* ", "
         \o (IF multi THEN <<10>> ELSE <<>>)
         \o print_members(members, i + 1, multi, indent)

\* static void print_object(const struct json_object *, FILE *, int indent)
print_object(object, indent) ==
    LET multi == object_contains_object_or_array(object)
    IN  (IF multi THEN <<123, 10>> ELSE <<123>>)                 \* "{\n" : "{"
        \o print_members(object.members, 1, multi, indent)
        \o (IF multi THEN print_indent(indent) ELSE <<>>)
        \o <<125>>

\* the body of the for loop of print_array from the i-th element on
print_items(array, i, multiline, indent) ==
    IF i > array.count THEN <<>>
    ELSE (IF multiline THEN print_indent(indent + 2) ELSE <<>>)
         \o json_print_indent(array.items[i], indent + 2)
         \o (IF i - 1 < array.count - 1 THEN <<44, 32>> ELSE <<>>)
         \o (IF multiline THEN <<10>> ELSE <<>>)
         \o print_items(array, i + 1, multiline, indent)

\* static void print_array(const struct json_array *, FILE *, int indent)
print_array(array, indent) ==
    LET multiline == array_contains_object_or_array(array)
    IN  (IF multiline THEN <<91, 10>> ELSE <<91>>)               \* "[\n" : "["
        \o print_items(array, 1, multiline, indent)
        \o (IF multiline THEN print_indent(indent) ELSE <<>>)
        \o <<93>>

\* static void json_print_indent(const struct json *, FILE *, int indent)
json_print_indent(j, indent) ==
    CASE j.type = "JSON_TYPE_OBJECT"  -> print_object(j, indent)
      [] j.type = "JSON_TYPE_ARRAY"   -> print_array(j, indent)
      [] j.type = "JSON_TYPE_STRING"  ->
             <<34>> \o json_print_string(j.string, FALSE) \o <<34>>
      [] j.type = "JSON_TYPE_NUMBER"  -> PrintedNumber(j.number)
      [] j.type = "JSON_TYPE_BOOLEAN" ->
             IF j.boolean THEN TrueText ELSE FalseText
      [] j.type = "JSON_TYPE_NULL"    -> NullText

\* void json_print(const struct json *json, FILE *out): the bytes written
json_print(j) == json_print_indent(j, 0) \o <<10>>

(***************************************************************************)
(* json.c: values and the object API.  A struct json is a record with its  *)
(* type and the member of the union that type uses; an Object's linked     *)
(* list of members is the sequence of its [key, value] nodes, head first.  *)
(* A key is a C string: its bytes before the terminator.                   *)
(***************************************************************************)
json_new_object == [type |-> "JSON_TYPE_OBJECT", members |-> <<>>]

\* items holds the elements items[count - Len(items)] .. items[count - 1];
\* in every array but the long ones of SpecArray these are all the elements
json_new_array ==
    [type |-> "JSON_TYPE_ARRAY", items |-> <<>>, capacity |-> 0, count |-> 0]

json_new_string(string) == [type |-> "JSON_TYPE_STRING", string |-> string]

json_new_number(number) == [type |-> "JSON_TYPE_NUMBER", number |-> number]

json_new_boolean(value) == [type |-> "JSON_TYPE_BOOLEAN", boolean |-> value]

json_new_null == [type |-> "JSON_TYPE_NULL"]

\* strcmp that looks at the first character of each string only
strcmp_FirstCharOnly(a, b) ==
    LET ca == IF a = <<>> THEN 0 ELSE Head(a)
        cb == IF b = <<>> THEN 0 ELSE Head(b)
    IN  ca - cb

RECURSIVE strcmp(_, _)
\* strcmp of two C strings: the difference of the first bytes that differ,
\* the terminator (0) included
strcmp(a, b) ==
    LET ca == IF a = <<>> THEN 0 ELSE Head(a)
        cb == IF b = <<>> THEN 0 ELSE Head(b)
    IN  IF ca # cb THEN ca - cb
        ELSE IF ca = 0 THEN 0
        ELSE strcmp(Tail(a), Tail(b))

RECURSIVE FindFrom(_, _, _)
\* FindMember that starts at the second member of the list
FindMember_SkipsHead(members, key) == FindFrom(members, 2, key)

\* while (*link) { if (strcmp(member->key, key) == 0) ...; link = &member->next; }
\* from the i-th member on: the index of the first member with that key, or 0
FindFrom(members, i, key) ==
    IF i > Len(members) THEN 0
    ELSE IF strcmp(members[i].key, key) = 0 THEN i
    ELSE FindFrom(members, i + 1, key)

FindMember(members, key) == FindFrom(members, 1, key)

\* json_member_new: NULL when malloc or strdup fails (alloc false)
json_member_new(key, value, alloc) ==
    IF alloc THEN [null |-> FALSE, member |-> [key |-> key, value |-> value]]
    ELSE [null |-> TRUE]

\* json_object_add(j, key, value): [ret, json, freed], freed being the
\* values handed to json_free
json_object_add(j, key, value, alloc) ==
    IF j.type # "JSON_TYPE_OBJECT"
    THEN [ret |-> FALSE, json |-> j, freed |-> <<>>]
    ELSE LET i == FindMember(j.members, key)
         IN  IF i # 0
             THEN [ret   |-> TRUE,
                   json  |-> [j EXCEPT !.members[i].value = value],
                   freed |-> <<j.members[i].value>>]
             ELSE LET added == json_member_new(key, value, alloc)
                  IN  IF added.null
                      THEN [ret |-> FALSE, json |-> j, freed |-> <<>>]
                      ELSE [ret   |-> TRUE,
                            json  |-> [j EXCEPT
                                         !.members = Append(@, added.member)],
                            freed |-> <<>>]

\* array_reserve that reports success without growing the buffer
array_reserve_KeepsCapacity(list, n, alloc) ==
    LET max == SIZE_MAX \div PointerSize
    IN  IF n > max \/ (n > list.capacity /\ ~alloc)
        THEN [ok |-> FALSE, list |-> list]
        ELSE [ok |-> TRUE, list |-> list]

\* array_reserve(list, n): the capacity afterwards, the items kept
array_reserve(list, n, alloc) ==
    LET max == SIZE_MAX \div PointerSize        \* SIZE_MAX / sizeof(*list->items)
    IN  IF n <= list.capacity THEN [ok |-> TRUE, list |-> list]
        ELSE IF n > max THEN [ok |-> FALSE, list |-> list]
        ELSE IF ~alloc THEN [ok |-> FALSE, list |-> list]
        ELSE [ok   |-> TRUE,
              list |-> [list EXCEPT
                          !.capacity = GrowRequest(
                              IF list.capacity # 0 THEN list.capacity
                              ELSE ArrayInitialCapacity, n, max)]]

\* json_array_add(value, item): [ret, json]
json_array_add(value, item, alloc) ==
    IF value.type # "JSON_TYPE_ARRAY" THEN [ret |-> FALSE, json |-> value]
    ELSE IF value.count = SIZE_MAX THEN [ret |-> FALSE, json |-> value]
    ELSE LET r == array_reserve(value, value.count + 1, alloc)
         IN  IF ~r.ok THEN [ret |-> FALSE, json |-> value]
             ELSE [ret  |-> TRUE,
                   json |-> [r.list EXCEPT !.items = Append(@, item),
                                           !.count = @ + 1]]

(***************************************************************************)
(* json.c: the functions the lexer calls.  A token's text is its bytes.    *)
(***************************************************************************)
RECURSIVE DecimalValue(_, _)
\* strtod on a text of decimal digits
DecimalValue(t, acc) ==
    IF t = <<>> THEN acc ELSE DecimalValue(Tail(t), acc * 10 + (Head(t) - 48))

\* scan_json_number(text) for a text of decimal digits (no ERANGE)
scan_json_number(t) == DecimalValue(t, 0)

\* scan_json_string(text): NULL (0) or the decoded C string; it hands no
\* place for the error to json_unescape_string
scan_json_string(t) ==
    IF Len(t) < 2 THEN [null |-> TRUE, string |-> <<>>]
    ELSE LET r == json_unescape_string(SubSeq(t, 2, Len(t) - 1), Len(t) - 2)
         IN  IF r.ret = "NULL" THEN [null |-> TRUE, string |-> <<>>]
             ELSE [null |-> FALSE, string |-> CString(r.data)]

(***************************************************************************)
(* The generated lexer and parser (yylex, yyparse) are not among the       *)
(* sources; they are modelled from the specification's section 4.3: the    *)
(* tokens, the grammar                                                     *)
(*     value  := object | array | string | number | true | false | null    *)
(*     object := "{" [ member ("," member)* ] "}"                          *)
(*     member := string ":" value                                          *)
(*     array  := "[" [ value ("," value)* ] "]"                            *)
(* the bottom-up construction with json_object_add and json_array_add, and *)
(* the status the specification gives the first error.  The input is the   *)
(* sequence of its tokens' texts, white space left out.                    *)
(***************************************************************************)
\* the token a text is, or the error reading it is
Lex(t) ==
    LET c == t[1]
    IN  CASE c = 123 -> [kind |-> "{"]
          [] c = 125 -> [kind |-> "}"]
          [] c = 91  -> [kind |-> "["]
          [] c = 93  -> [kind |-> "]"]
          [] c = 58  -> [kind |-> ":"]
          [] c = 44  -> [kind |-> ","]
          [] c = 34  ->
               IF Len(t) < 2 \/ t[Len(t)] # 34
               THEN [kind |-> "error", status |-> "JSON_UNEXPECTED_FILE_END"]
               ELSE IF scan_json_string(t).null
               THEN [kind   |-> "error",
                     status |-> json_unescape_string(
                                    SubSeq(t, 2, Len(t) - 1), Len(t) - 2).error]
               ELSE [kind |-> "string", value |-> scan_json_string(t).string]
          [] c >= 48 /\ c <= 57 ->
               [kind |-> "number", value |-> scan_json_number(t)]
          [] t = <<110, 117, 108, 108>> -> [kind |-> "null"]
          [] OTHER -> [kind |-> "error", status |-> "JSON_UNEXPECTED_CHARACTER"]

\* a production that completed: its value, the tokens after it and the
\* number of values built so far
Parsed(v, rest, built) ==
    [ok |-> TRUE, value |-> v, rest |-> rest, built |-> built]

\* the first error: its status and the number of values built before it
Refused(status, built) == [ok |-> FALSE, status |-> status, built |-> built]

\* the tokens of an input given as the sequence of its tokens' texts
yylex(texts) == [i \in 1..Len(texts) |-> Lex(texts[i])]

\* the error at a token that cannot stand where it is: the lexer's error if
\* the token is none, the end of the input if there is no token
Unexpected(ts, built) ==
    IF ts = <<>> THEN Refused("JSON_UNEXPECTED_FILE_END", built)
    ELSE IF Head(ts).kind = "error"
    THEN Refused(Head(ts).status, built)
    ELSE Refused("JSON_UNEXPECTED_CHARACTER", built)

\* whether the next token is of that kind
NextIs(ts, kind) == ts # <<>> /\ Head(ts).kind = kind

\* F of the value of x, x being computed once
With(x, F(_)) == CHOOSE r \in {F(v) : v \in {x}} : TRUE

\* the productions, one operator for the three of them: rule "value" reads
\* a value, rule "members" reads member ("," member)* "}" into the object
\* into, rule "elements" reads value ("," value)* "]" into the array into
RECURSIVE production(_, _, _, _)
production(rule, ts, into, built) ==
    IF rule = "value"
    THEN IF NextIs(ts, "{")
         THEN IF NextIs(Tail(ts), "}")
              THEN Parsed(json_new_object, Tail(Tail(ts)), built + 1)
              ELSE production("members", Tail(ts), json_new_object, built + 1)
         ELSE IF NextIs(ts, "[")
         THEN IF NextIs(Tail(ts), "]")
              THEN Parsed(json_new_array, Tail(Tail(ts)), built + 1)
              ELSE production("elements", Tail(ts), json_new_array, built + 1)
         ELSE IF NextIs(ts, "string")
         THEN Parsed(json_new_string(Head(ts).value), Tail(ts), built + 1)
         ELSE IF NextIs(ts, "number")
         THEN Parsed(json_new_number(Head(ts).value), Tail(ts), built + 1)
         ELSE IF NextIs(ts, "null")
         THEN Parsed(json_new_null, Tail(ts), built + 1)
         ELSE Unexpected(ts, built)
    ELSE IF rule = "members"
    THEN IF ~NextIs(ts, "string") THEN Unexpected(ts, built)
         ELSE IF ~NextIs(Tail(ts), ":") THEN Unexpected(Tail(ts), built)
         ELSE With(production("value", Tail(Tail(ts)), into, built), LAMBDA v :
                IF ~v.ok THEN v
                ELSE With(json_object_add(into, Head(ts).value,
                                          v.value, TRUE).json, LAMBDA added :
                       IF NextIs(v.rest, "}")
                       THEN Parsed(added, Tail(v.rest), v.built)
                       ELSE IF NextIs(v.rest, ",")
                       THEN production("members", Tail(v.rest), added, v.built)
                       ELSE Unexpected(v.rest, v.built)))
    ELSE With(production("value", ts, into, built), LAMBDA v :
           IF ~v.ok THEN v
           ELSE With(json_array_add(into, v.value, TRUE).json, LAMBDA added :
                  IF NextIs(v.rest, "]")
                  THEN Parsed(added, Tail(v.rest), v.built)
                  ELSE IF NextIs(v.rest, ",")
                  THEN production("elements", Tail(v.rest), added, v.built)
                  ELSE Unexpected(v.rest, v.built)))

\* value := object | array | string | number | null
parse_value(ts, built) == production("value", ts, json_new_null, built)

\* yyparse() on the input texts: 0 and the root, or 1, the status section
\* 4.3 gives the first error and the values built before it, which it
\* destroys
yyparse(texts) ==
    With(parse_value(yylex(texts), 0), LAMBDA v :
      IF ~v.ok THEN [result |-> 1, status |-> v.status, built |-> v.built]
      ELSE IF v.rest # <<>>
      THEN [result |-> 1, status |-> Unexpected(v.rest, 0).status,
            built |-> v.built]
      ELSE [result |-> 0, root |-> v.value, built |-> v.built])

(***************************************************************************)
(* json.c: json_parse and json_free.  The heap holds one entry for each    *)
(* tree a yyparse call built, whole or in part, "live" or "freed"; a       *)
(* pointer to a tree is its index, NULL is 0.  A tree is freed as a whole. *)
(***************************************************************************)
\* json_free(value): the heap afterwards; twice is set when value was
\* freed before (undefined behaviour)
json_free(value, hp) ==
    IF value = 0 THEN [heap |-> hp, twice |-> FALSE]
    ELSE IF hp[value] = "live"
    THEN [heap |-> [hp EXCEPT ![value] = "freed"], twice |-> FALSE]
    ELSE [heap |-> hp, twice |-> TRUE]

\* the effect of yyparse() (modelled from the specification) on the
\* parser's global and the heap: on 0 the tree is built and stored in
\* json_root; on 1 the values built, if any, are destroyed again and
\* json_root is left as it was
yyparse_run(y, root, hp) ==
    IF y.result = 0
    THEN [result |-> 0, json_root |-> Len(hp) + 1, heap |-> Append(hp, "live")]
    ELSE [result |-> y.result, json_root |-> root,
          heap |-> IF y.built > 0 THEN Append(hp, "freed") ELSE hp]

\* json_parse that returns json_root whatever yyparse returned
json_parse_ReturnsRoot(y, root, hp) ==
    LET run == yyparse_run(y, root, hp)
    IN  IF run.result = 0
        THEN [status |-> "JSON_SUCCESS", ret |-> run.json_root,
              json_root |-> run.json_root, heap |-> run.heap, twice |-> FALSE]
        ELSE [status |-> "JSON_UNEXPECTED_CHARACTER", ret |-> run.json_root,
              json_root |-> run.json_root,
              heap  |-> json_free(run.json_root, run.heap).heap,
              twice |-> json_free(run.json_root, run.heap).twice]

\* json_parse(in, &status), y being what yyparse() makes of the input:
\* [status, ret, json_root, heap, twice]
json_parse(y, root, hp) ==
    LET run == yyparse_run(y, root, hp)
    IN  IF run.result = 0
        THEN [status |-> "JSON_SUCCESS", ret |-> run.json_root,
              json_root |-> run.json_root, heap |-> run.heap, twice |-> FALSE]
        ELSE [status |-> "JSON_UNEXPECTED_CHARACTER", ret |-> 0,
              json_root |-> run.json_root,
              heap  |-> json_free(run.json_root, run.heap).heap,
              twice |-> json_free(run.json_root, run.heap).twice]

(***************************************************************************)
(* The initial values of the variables a specification does not use.       *)
(***************************************************************************)
NoDecode == [called |-> FALSE, at |-> 0, ret |-> FALSE]

IdleUtf8 ==
    /\ buf = <<>>
    /\ end = 0
    /\ ptr = 0
    /\ code = 0
    /\ dec = NoDecode

NoPush == [called |-> FALSE, code |-> 0, ret |-> FALSE, before |-> <<>>]

IdleUstring ==
    /\ dst = [data |-> <<>>, capacity |-> 0, null |-> TRUE]
    /\ push = NoPush

NoUnescape ==
    [called |-> FALSE, withError |-> FALSE, length |-> 0, ret |-> "NULL",
     data |-> <<>>, src |-> 0]

IdleEscape ==
    /\ text = <<>>
    /\ err = "unwritten"
    /\ unesc = NoUnescape

NoPrint == [called |-> FALSE, ascii |-> FALSE, body |-> <<>>]

IdlePrint ==
    /\ str = <<>>
    /\ printed = NoPrint

NoCall ==
    [called |-> FALSE, key |-> <<>>, value |-> json_new_null, alloc |-> TRUE,
     ret |-> FALSE, before |-> json_new_null, freed |-> <<>>]

IdleTree ==
    /\ json = json_new_null
    /\ call = NoCall

NoParse ==
    [called |-> FALSE, calls |-> 0, outcome |-> "returned", result |-> 0,
     expected |-> "JSON_SUCCESS", status |-> "unwritten", ret |-> 0,
     tree |-> json_new_null, mark |-> 0, stale |-> 0, twice |-> FALSE]

IdleParse ==
    /\ input = <<>>
    /\ json_root = 0
    /\ heap = <<>>
    /\ parse = NoParse

(***************************************************************************)
(* SpecUtf8: decode_next_UTF8 on arbitrary buffers.  A buffer is a lead    *)
(* byte followed by up to MaxTrail bytes, `end` lies anywhere in it, and   *)
(* the caller decodes from the start, again after each success.            *)
(***************************************************************************)
MaxTrail == 3

LeadBytes == {0, 65, 127, 128, 191, 192, 193, 194, 223, 224, 225, 237, 239,
              240, 241, 244, 245, 247, 248, 255}

TrailBytes == {65, 128, 143, 144, 159, 160, 191, 237}

Buffers ==
    {<<>>} \cup {<<l>> \o t : l \in LeadBytes, t \in SeqsUpTo(TrailBytes, MaxTrail)}

InitUtf8 ==
    /\ buf \in Buffers
    /\ end \in 0..Len(buf)
    /\ ptr = 0
    /\ code = 0
    /\ dec = NoDecode
    /\ IdleUstring /\ IdleEscape /\ IdlePrint /\ IdleTree /\ IdleParse

\* ok = decode_next_UTF8(&ptr, end, &code), at most once per position
DecodeNext ==
    /\ ~dec.called \/ (dec.ret /\ ptr < end)
    /\ LET r == decode_next_UTF8(buf, ptr, end)
       IN  /\ ptr' = r.ptr
           /\ code' = IF r.ok THEN r.code ELSE code
           /\ dec' = [called |-> TRUE, at |-> ptr, ret |-> r.ok]
    /\ UNCHANGED <<buf, end, ustrVars, escVars, printVars, treeVars, parseVars>>

NextUtf8 == DecodeNext

SpecUtf8 == InitUtf8 /\ [][NextUtf8]_vars

(***************************************************************************)
(* The strict UTF-8 decoder of the Unicode standard (its table of          *)
(* well-formed byte sequences), to which decode_next_UTF8 is compared.     *)
(***************************************************************************)
InRange(c, lo, hi) == lo <= c /\ c <= hi

\* the length of the well-formed sequence at offset p inside b[0..e), or 0
RefLen(b, p, e) ==
    LET at(i) == b[p + i]
        tail(i) == InRange(at(i), 128, 191)
    IN  IF p >= e THEN 0
        ELSE IF at(1) <= 127 THEN 1
        ELSE IF e - p >= 2 /\ InRange(at(1), 194, 223) /\ tail(2) THEN 2
        ELSE IF e - p >= 3 /\ tail(3) /\
                  \/ at(1) = 224 /\ InRange(at(2), 160, 191)
                  \/ InRange(at(1), 225, 236) /\ tail(2)
                  \/ at(1) = 237 /\ InRange(at(2), 128, 159)
                  \/ InRange(at(1), 238, 239) /\ tail(2)
             THEN 3
        ELSE IF e - p >= 4 /\ tail(3) /\ tail(4) /\
                  \/ at(1) = 240 /\ InRange(at(2), 144, 191)
                  \/ InRange(at(1), 241, 243) /\ tail(2)
                  \/ at(1) = 244 /\ InRange(at(2), 128, 143)
             THEN 4
        ELSE 0

\* the scalar value of the well-formed sequence of length k at offset p
RefScalar(b, p, k) ==
    LET at(i) == b[p + i]
    IN  CASE k = 1 -> at(1)
          [] k = 2 -> (at(1) - 192) * 64 + (at(2) - 128)
          [] k = 3 -> (at(1) - 224) * 4096 + (at(2) - 128) * 64 + (at(3) - 128)
          [] k = 4 -> (at(1) - 240) * 262144 + (at(2) - 128) * 4096
                        + (at(3) - 128) * 64 + (at(4) - 128)

\* C6: decode_next_UTF8 succeeds exactly when a well-formed minimal sequence
\* of a non-surrogate scalar <= U+10FFFF starts at the position and lies
\* inside the buffer; it then returns that scalar and advances the position
\* by the sequence's length; otherwise it returns false and leaves the
\* position where it was.
C6_DecodeIsStrict ==
    dec.called =>
        LET k == RefLen(buf, dec.at, end)
        IN  IF k > 0
            THEN dec.ret /\ ptr = dec.at + k /\ code = RefScalar(buf, dec.at, k)
            ELSE ~dec.ret /\ ptr = dec.at

\* C6 witness: after the accepted byte 41 the surrogate ED A0 80 is rejected
\* at offset 1, the position left there.
C6_Witness ==
    /\ buf = <<65, 237, 160, 128>> /\ end = 4
    /\ dec.called /\ ~dec.ret /\ dec.at = 1 /\ ptr = 1 /\ code = 65

(***************************************************************************)
(* SpecEncode: code points are pushed onto a new ustring, and the bytes    *)
(* each push appended are handed to decode_next_UTF8.                      *)
(***************************************************************************)
MaxData == 4

CodeSamples == {0, 65, 127, 128, 233, 2047, 2048, 8364, 55295, 55296, 57343,
                57344, 65533, 65535, 65536, 128512, 1114111, 1114112,
                2097152, 2147483647}

InitEncode ==
    /\ dst \in {ustring_new(0, TRUE).u, ustring_new(1, TRUE).u}
    /\ push = NoPush
    /\ IdleUtf8 /\ IdleEscape /\ IdlePrint /\ IdleTree /\ IdleParse

\* ok = ustring_push(dst, c)
Push(c, alloc) ==
    /\ Len(dst.data) < MaxData
    /\ LET r == ustring_push(dst, c, alloc)
       IN  /\ dst' = r.u
           /\ push' = [called |-> TRUE, code |-> c, ret |-> r.ok, before |-> dst]
    /\ dec' = NoDecode
    /\ UNCHANGED <<buf, end, ptr, code, escVars, printVars, treeVars, parseVars>>

\* ok = decode_next_UTF8(&ptr, end, &code) on the bytes the last push appended
DecodePushed ==
    /\ push.called /\ push.ret /\ ~dec.called
    /\ LET p == Len(push.before.data)
           e == Len(dst.data)
           r == decode_next_UTF8(dst.data, p, e)
       IN  /\ buf' = dst.data
           /\ end' = e
           /\ ptr' = r.ptr
           /\ code' = IF r.ok THEN r.code ELSE code
           /\ dec' = [called |-> TRUE, at |-> p, ret |-> r.ok]
    /\ UNCHANGED <<ustrVars, escVars, printVars, treeVars, parseVars>>

NextEncode ==
    \/ \E c \in CodeSamples, alloc \in BOOLEAN : Push(c, alloc)
    \/ DecodePushed

SpecEncode == InitEncode /\ [][NextEncode]_vars

\* a Unicode scalar value: 0..0x10FFFF without the surrogates
IsScalar(c) == InRange(c, 0, 1114111) /\ ~InRange(c, 55296, 57343)

\* the number of bytes of the minimal UTF-8 encoding of scalar c
MinimalLen(c) ==
    IF c < 128 THEN 1 ELSE IF c < 2048 THEN 2 ELSE IF c < 65536 THEN 3 ELSE 4

\* C7: for a scalar value c a ustring_push that returns true has appended the
\* minimal UTF-8 encoding of c (a well-formed sequence of the minimal length
\* whose value is c) and changed nothing before it, and decode_next_UTF8 on
\* exactly those bytes returns c and consumes them all; for a code above
\* 0x10FFFF ustring_push returns false and leaves the ustring as it was.
C7_EncodeDecodeRoundTrip ==
    /\ (push.called /\ push.ret /\ IsScalar(push.code)) =>
           LET p == Len(push.before.data)
               n == Len(dst.data)
           IN  /\ n = p + MinimalLen(push.code)
               /\ Take(dst.data, p) = push.before.data
               /\ RefLen(dst.data, p, n) = n - p
               /\ RefScalar(dst.data, p, n - p) = push.code
               /\ dec.called => (dec.ret /\ code = push.code /\ ptr = n)
    /\ (push.called /\ push.code > 1114111) =>
           (~push.ret /\ dst = push.before)
    /\ (push.called /\ ~push.ret) => dst = push.before

\* C7 witness: U+1F600 was pushed after one other byte and decoded back from
\* its four bytes.
C7_Witness ==
    /\ push.called /\ push.ret /\ push.code = 128512
    /\ Len(push.before.data) = 1
    /\ dec.called /\ dec.ret /\ code = 128512 /\ ptr = 5

\* C7 witness of the rejection: a code above 0x10FFFF was refused.
C7_WitnessRejected ==
    push.called /\ push.code = 1114112 /\ ~push.ret /\ Len(dst.data) = 2

(***************************************************************************)
(* SpecEscape: json_unescape_string on the body of a string token, called  *)
(* with or without a place for the error.                                  *)
(***************************************************************************)
MaxText == 3

\* \ " / b f n r t u q A 0 and the two bytes of U+00E9
EscBytes == {92, 34, 47, 98, 102, 110, 114, 116, 117, 113, 65, 48, 195, 169}

InitEscape ==
    /\ text \in SeqsUpTo(EscBytes, MaxText)
    /\ err = "unwritten"
    /\ unesc = NoUnescape
    /\ IdleUtf8 /\ IdleUstring /\ IdlePrint /\ IdleTree /\ IdleParse

\* string = json_unescape_string(text, Len(text), withError ? &err : NULL)
Unescape(withError) ==
    /\ ~unesc.called
    /\ LET r == json_unescape_string(text, Len(text))
       IN  /\ err' = IF withError /\ r.error # "unwritten" THEN r.error ELSE err
           /\ unesc' = [called |-> TRUE, withError |-> withError,
                        length |-> Len(text), ret |-> r.ret,
                        data |-> r.data, src |-> r.src]
    /\ UNCHANGED <<text, utf8Vars, ustrVars, printVars, treeVars, parseVars>>

NextEscape == \E withError \in BOOLEAN : Unescape(withError)

SpecEscape == InitEscape /\ [][NextEscape]_vars

\* whether no byte of t is a backslash
NoBackslash(t) == \A i \in 1..Len(t) : t[i] # Backslash

\* C8: for an input without a backslash the output bytes are the input
\* bytes, whatever their values (here for a non-empty input).
C8_PlainBytesCopied ==
    (unesc.called /\ text # <<>> /\ NoBackslash(text)) =>
        (unesc.ret = "string" /\ unesc.data = text)

\* the byte each two-character escape stands for: " \ / b f n r t
EscapeTable ==
    (34 :> 34) @@ (92 :> 92) @@ (47 :> 47) @@ (98 :> 8) @@ (102 :> 12)
        @@ (110 :> 10) @@ (114 :> 13) @@ (116 :> 9)

RECURSIVE SimpleText(_)
\* whether t is made of ASCII bytes other than the backslash and of
\* two-character escapes of the table only
SimpleText(t) ==
    IF t = <<>> THEN TRUE
    ELSE IF t[1] = Backslash
    THEN Len(t) >= 2 /\ t[2] \in DOMAIN EscapeTable /\ SimpleText(Drop(t, 2))
    ELSE t[1] < 128 /\ SimpleText(Tail(t))

RECURSIVE SimpleDecoded(_)
\* such a text with every escape replaced by its byte
SimpleDecoded(t) ==
    IF t = <<>> THEN <<>>
    ELSE IF t[1] = Backslash
    THEN <<EscapeTable[t[2]]>> \o SimpleDecoded(Drop(t, 2))
    ELSE <<t[1]>> \o SimpleDecoded(Tail(t))

RECURSIVE BadEscapeFirst(_)
\* whether, after bytes other than the backslash and escapes of the table,
\* t has a backslash followed by a character that is neither in the table
\* nor u
BadEscapeFirst(t) ==
    IF t = <<>> THEN FALSE
    ELSE IF t[1] # Backslash THEN BadEscapeFirst(Tail(t))
    ELSE IF Len(t) < 2 \/ t[2] = 117 THEN FALSE
    ELSE IF t[2] \in DOMAIN EscapeTable THEN BadEscapeFirst(Drop(t, 2))
    ELSE TRUE

\* C9: each backslash followed by one of " \ / b f n r t yields exactly the
\* one byte 22 5C 2F 08 0C 0A 0D 09 (here in a text of ASCII bytes and such
\* escapes); a backslash followed by any other character but u makes the
\* call return NULL, with JSON_INVALID_ESCAPE as the error.
C9_SimpleEscapes ==
    unesc.called =>
        /\ (text # <<>> /\ SimpleText(text)) =>
               (unesc.ret = "string" /\ unesc.data = SimpleDecoded(text))
        /\ BadEscapeFirst(text) =>
               /\ unesc.ret = "NULL"
               /\ unesc.withError => err = "JSON_INVALID_ESCAPE"

\* C9 witness: A \n decoded to 41 0A.
C9_Witness ==
    /\ text = <<65, 92, 110>>
    /\ unesc.called /\ unesc.ret = "string" /\ unesc.data = <<65, 10>>

\* C9 witness of the rejection: \q is refused with JSON_INVALID_ESCAPE.
C9_WitnessRejected ==
    /\ text = <<65, 92, 113>>
    /\ unesc.called /\ unesc.withError /\ unesc.ret = "NULL"
    /\ err = "JSON_INVALID_ESCAPE"

\* whether t is bytes without a backslash followed by one last backslash
EndsWithLoneBackslash(t) ==
    t # <<>> /\ t[Len(t)] = Backslash /\ NoBackslash(Take(t, Len(t) - 1))

\* C10: an input that ends with a backslash that has no following character
\* fails with JSON_INVALID_ESCAPE and returns no string.
C10_TrailingBackslashFails ==
    (unesc.called /\ EndsWithLoneBackslash(text)) =>
        /\ unesc.ret = "NULL"
        /\ unesc.withError => err = "JSON_INVALID_ESCAPE"

(***************************************************************************)
(* SpecPrint: a String value (or key) of up to MaxChars characters or      *)
(* stray bytes is printed by json_print_string, and the text between the   *)
(* quotes is decoded again by json_unescape_string.                        *)
(***************************************************************************)
MaxChars == 2

\* A " \ LF U+0001 / DEL, U+00E9, U+20AC, U+FFFD, U+1F600, and bytes that are
\* no UTF-8: a continuation byte, a lead byte alone, a surrogate, FF
StrChunks == {<<65>>, <<34>>, <<92>>, <<10>>, <<1>>, <<47>>, <<127>>,
              <<195, 169>>, <<226, 130, 172>>, <<239, 191, 189>>,
              <<240, 159, 152, 128>>,
              <<128>>, <<195>>, <<237, 160, 128>>, <<255>>}

RECURSIVE Concat(_)
Concat(ss) == IF ss = <<>> THEN <<>> ELSE Head(ss) \o Concat(Tail(ss))

InitPrint ==
    /\ str \in {Concat(ss) : ss \in SeqsUpTo(StrChunks, MaxChars)}
    /\ printed = NoPrint
    /\ IdleUtf8 /\ IdleUstring /\ IdleEscape /\ IdleTree /\ IdleParse

\* json_print_string(str, out, ascii)
PrintString(ascii) ==
    /\ ~printed.called
    /\ printed' = [called |-> TRUE, ascii |-> ascii,
                   body |-> json_print_string(str, ascii)]
    /\ UNCHANGED <<str, utf8Vars, ustrVars, escVars, treeVars, parseVars>>

\* scan_json_string's call on the printed token:
\* json_unescape_string(text + 1, len - 2, NULL)
UnescapePrinted ==
    /\ printed.called /\ ~unesc.called
    /\ LET r == json_unescape_string(printed.body, Len(printed.body))
       IN  /\ text' = printed.body
           /\ unesc' = [called |-> TRUE, withError |-> FALSE,
                        length |-> Len(printed.body), ret |-> r.ret,
                        data |-> r.data, src |-> r.src]
    /\ UNCHANGED <<err, utf8Vars, ustrVars, printVars, treeVars, parseVars>>

NextPrint ==
    \/ \E ascii \in BOOLEAN : PrintString(ascii)
    \/ UnescapePrinted

SpecPrint == InitPrint /\ [][NextPrint]_vars

RECURSIVE ValidUtf8From(_, _)
\* whether t from offset p on is well-formed UTF-8 without NUL
ValidUtf8From(t, p) ==
    IF p >= Len(t) THEN TRUE
    ELSE LET k == RefLen(t, p, Len(t))
         IN  k > 0 /\ t[p + 1] # 0 /\ ValidUtf8From(t, p + k)

\* C5: for a string of valid UTF-8 without NUL (here a non-empty one), the
\* text json_print_string writes between the quotes is decoded by
\* json_unescape_string, successfully, to exactly the string's bytes.
C5_StringRoundTrip ==
    (unesc.called /\ str # <<>> /\ ValidUtf8From(str, 0)) =>
        (unesc.ret = "string" /\ unesc.data = str)

(***************************************************************************)
(* SpecObject: json_object_add calls on one value, a new Object or (for    *)
(* the type test) a new Array, with up to MaxMembers members.              *)
(***************************************************************************)
MaxMembers == 3

\* "a", "b", "ab" and the empty key
KeySamples == {<<97>>, <<98>>, <<97, 98>>, <<>>}

ValueSamples == {json_new_number(1), json_new_number(2), json_new_null}

InitObject ==
    /\ json \in {json_new_object, json_new_array}
    /\ call = NoCall
    /\ IdleUtf8 /\ IdleUstring /\ IdleEscape /\ IdlePrint /\ IdleParse

\* ret = json_object_add(json, key, value)
ObjectAdd(key, value, alloc) ==
    /\ json.type = "JSON_TYPE_OBJECT" =>
           \/ Len(json.members) < MaxMembers
           \/ \E i \in 1..Len(json.members) : json.members[i].key = key
    /\ LET r == json_object_add(json, key, value, alloc)
       IN  /\ json' = r.json
           /\ call' = [called |-> TRUE, key |-> key, value |-> value,
                       alloc |-> alloc, ret |-> r.ret, before |-> json,
                       freed |-> r.freed]
    /\ UNCHANGED <<utf8Vars, ustrVars, escVars, printVars, parseVars>>

NextObject ==
    \E key \in KeySamples, value \in ValueSamples, alloc \in BOOLEAN :
        ObjectAdd(key, value, alloc)

SpecObject == InitObject /\ [][NextObject]_vars

\* C1: after any sequence of json_object_add calls no two members of the
\* object have byte-identical keys.
C1_KeysUnique ==
    json.type = "JSON_TYPE_OBJECT" =>
        \A i, j \in 1..Len(json.members) :
            i # j => json.members[i].key # json.members[j].key

\* C1 witness: the object is full, and the last call was given a key that a
\* member other than the first already had.
C1_Witness ==
    /\ json.type = "JSON_TYPE_OBJECT" /\ Len(json.members) = MaxMembers
    /\ call.called /\ call.ret
    /\ \E i \in 2..Len(call.before.members) :
           call.before.members[i].key = call.key

\* C2: on an Object, when a member has the key only that member's value
\* changes, to v (the count, every key, the order and every other value
\* stay); when none has it and the member can be allocated, (key, v) becomes
\* the last member and the earlier members stay as they were.
C2_AddFrame ==
    (call.called /\ call.before.type = "JSON_TYPE_OBJECT") =>
        LET old == call.before.members
            new == json.members
            has == {i \in 1..Len(old) : old[i].key = call.key}
        IN  IF has # {}
            THEN /\ call.ret
                 /\ Cardinality(has) = 1
                 /\ Len(new) = Len(old)
                 /\ \A i \in 1..Len(old) :
                        /\ new[i].key = old[i].key
                        /\ new[i].value =
                               IF i \in has THEN call.value ELSE old[i].value
            ELSE IF call.alloc
            THEN /\ call.ret
                 /\ new = Append(old, [key |-> call.key, value |-> call.value])
            ELSE ~call.ret /\ new = old

\* C2 witness: "a" was added with 1, then "b", then "a" with 2: one member
\* "a": 2 at the first position.
C2_Witness ==
    /\ call.called /\ call.ret /\ call.key = <<97>>
    /\ call.value = json_new_number(2)
    /\ call.before.members = <<[key |-> <<97>>, value |-> json_new_number(1)],
                               [key |-> <<98>>, value |-> json_new_null]>>
    /\ json.members = <<[key |-> <<97>>, value |-> json_new_number(2)],
                        [key |-> <<98>>, value |-> json_new_null]>>
    /\ call.freed = <<json_new_number(1)>>

(***************************************************************************)
(* SpecParse: up to MaxParses json_parse calls of one process, each on a   *)
(* document of Docs: the valid documents below, each of their proper       *)
(* prefixes, each with one token replaced by a token that cannot stand     *)
(* there, and each followed by one more token.  No document holds the      *)
(* empty string "": scan_json_string returns NULL for it, and what the     *)
(* generated lexer does with that NULL is not known.                       *)
(***************************************************************************)
MaxParses == 3

LBRACE == <<123>>

RBRACE == <<125>>

LBRACK == <<91>>

RBRACK == <<93>>

COLON == <<58>>

COMMA == <<44>>

\* "a"
STR_A == <<34, 97, 34>>

\* "b"
STR_B == <<34, 98, 34>>

NUM_1 == <<49>>

NUM_2 == <<50>>

NULL_LIT == <<110, 117, 108, 108>>

\* ?
BAD_CHAR == <<63>>

\* "\q"
STR_BAD_ESCAPE == <<34, 92, 113, 34>>

\* "\uD800"
STR_BAD_UNICODE == <<34, 92, 117, 68, 56, 48, 48, 34>>

\* "a without the closing quote
STR_OPEN == <<34, 97>>

ValidDocs ==
    { <<NUM_1>>,
      <<STR_A>>,
      <<LBRACK, RBRACK>>,
      <<LBRACK, NUM_1, COMMA, STR_A, RBRACK>>,
      <<LBRACE, RBRACE>>,
      <<LBRACE, STR_A, COLON, NUM_1, RBRACE>>,
      <<LBRACE, STR_A, COLON, NUM_1, COMMA, STR_B, COLON, NULL_LIT, RBRACE>>,
      <<LBRACE, STR_A, COLON, NUM_1, COMMA, STR_A, COLON, NUM_2, RBRACE>>,
      <<LBRACK, LBRACE, STR_A, COLON, LBRACK, NUM_1, RBRACK, RBRACE, RBRACK>> }

Replacements ==
    {BAD_CHAR, STR_BAD_ESCAPE, STR_BAD_UNICODE, STR_OPEN, RBRACE, COMMA}

Docs ==
    ValidDocs
    \cup UNION {{Take(d, n) : n \in 0..(Len(d) - 1)} : d \in ValidDocs}
    \cup UNION {{[d EXCEPT ![i] = r] : i \in 1..Len(d), r \in Replacements} :
                 d \in ValidDocs}
    \cup {Append(d, r) : d \in ValidDocs, r \in Replacements}

\* what yyparse() makes of each document
YYResult == [d \in Docs |-> yyparse(d)]

InitParse ==
    /\ input = <<>>
    /\ json_root = 0
    /\ heap = <<>>
    /\ parse = NoParse
    /\ IdleUtf8 /\ IdleUstring /\ IdleEscape /\ IdlePrint /\ IdleTree

\* json = json_parse(in, &status) with the document doc behind `in`; a
\* second free of the same tree (twice) either aborts the process or goes
\* unnoticed
JsonParse(doc, abort) ==
    /\ parse.calls < MaxParses
    /\ parse.outcome = "returned"
    /\ LET y == YYResult[doc]
           r == json_parse(y, json_root, heap)
       IN  /\ abort => r.twice
           /\ input' = doc
           /\ json_root' = r.json_root
           /\ heap' = r.heap
           /\ parse' = [called   |-> TRUE,
                        calls    |-> parse.calls + 1,
                        outcome  |-> IF abort THEN "aborted" ELSE "returned",
                        result   |-> y.result,
                        expected |-> IF y.result = 0 THEN "JSON_SUCCESS"
                                     ELSE y.status,
                        status   |-> r.status,
                        ret      |-> r.ret,
                        tree     |-> IF y.result = 0 THEN y.root
                                     ELSE json_new_null,
                        mark     |-> Len(heap),
                        stale    |-> json_root,
                        twice    |-> r.twice]
    /\ UNCHANGED <<utf8Vars, ustrVars, escVars, printVars, treeVars>>

NextParse == \E doc \in Docs, abort \in BOOLEAN : JsonParse(doc, abort)

SpecParse == InitParse /\ [][NextParse]_vars

\* the type of the value a document that starts with this text is
RootType(t) ==
    CASE t = LBRACE   -> "JSON_TYPE_OBJECT"
      [] t = LBRACK   -> "JSON_TYPE_ARRAY"
      [] t[1] = 34    -> "JSON_TYPE_STRING"
      [] t = NULL_LIT -> "JSON_TYPE_NULL"
      [] OTHER        -> "JSON_TYPE_NUMBER"

\* the trees this call built, whole or in part
BuiltByCall == (parse.mark + 1)..Len(heap)

C3_WitnessSuccess ==
    /\ parse.called /\ parse.outcome = "returned"
    /\ input = <<LBRACE, STR_A, COLON, NUM_1, COMMA, STR_B, COLON, NULL_LIT,
                 RBRACE>>
    /\ parse.ret = json_root
    /\ Len(parse.tree.members) = 2

\* C4: the status a failed json_parse reports is the kind of the first
\* error: JSON_UNEXPECTED_CHARACTER for a token that is none or that the
\* grammar does not allow, JSON_UNEXPECTED_FILE_END for an input that ends
\* within a token or a structure, JSON_INVALID_ESCAPE and
\* JSON_INVALID_UNICODE for a string the escape decoder rejects.
C4_StatusNamesFirstError ==
    (parse.called /\ parse.outcome = "returned" /\ parse.result # 0) =>
        parse.status = parse.expected

(***************************************************************************)
(* SpecUnicode: one json_unescape_string call on the first `length` bytes  *)
(* of a buffer made of up to MaxUnits units: \u escapes of the boundary    *)
(* code units, an escape with a character that is no hex digit, a plain    *)
(* byte and a two-character escape.  The buffer goes on after `length`, as *)
(* the lexer's token text does after the body of the string, so a length   *)
(* can end inside an escape.                                               *)
(***************************************************************************)
MaxUnits == 2

\* \u and four characters
UEscape(a, b, c, d) == <<92, 117, a, b, c, d>>

Units ==
    { UEscape(68, 56, 51, 68),     \* the escape uD83D
      UEscape(68, 69, 48, 48),     \* the escape uDE00
      UEscape(68, 56, 48, 48),     \* the escape uD800
      UEscape(100, 98, 102, 102),  \* the escape udbff
      UEscape(68, 67, 48, 48),     \* the escape uDC00
      UEscape(68, 70, 70, 70),     \* the escape uDFFF
      UEscape(68, 55, 70, 70),     \* the escape uD7FF
      UEscape(48, 48, 52, 49),     \* the escape u0041
      UEscape(69, 48, 48, 48),     \* the escape uE000
      UEscape(70, 70, 70, 68),     \* the escape uFFFD
      UEscape(48, 48, 48, 48),     \* the escape u0000
      UEscape(48, 48, 71, 49),     \* the escape u00G1
      <<65>>,                      \* A
      <<92, 110>> }                \* \n

RECURSIVE UnitTexts(_)
\* the concatenations of up to n units
UnitTexts(n) ==
    IF n = 0 THEN {<<>>}
    ELSE UnitTexts(n - 1)
         \cup {t \o u : t \in UnitTexts(n - 1), u \in Units}

InitUnicode ==
    /\ text \in UnitTexts(MaxUnits)
    /\ err = "unwritten"
    /\ unesc = NoUnescape
    /\ IdleUtf8 /\ IdleUstring /\ IdlePrint /\ IdleTree /\ IdleParse

\* string = json_unescape_string(text, length, withError ? &err : NULL)
UnescapeWithin(length, withError) ==
    /\ ~unesc.called
    /\ LET r == json_unescape_string(text, length)
       IN  /\ err' = IF withError /\ r.error # "unwritten" THEN r.error ELSE err
           /\ unesc' = [called |-> TRUE, withError |-> withError,
                        length |-> length, ret |-> r.ret,
                        data |-> r.data, src |-> r.src]
    /\ UNCHANGED <<text, utf8Vars, ustrVars, printVars, treeVars, parseVars>>

NextUnicode ==
    \E length \in 0..Len(text), withError \in BOOLEAN :
        UnescapeWithin(length, withError)

SpecUnicode == InitUnicode /\ [][NextUnicode]_vars

\* the characters 0-9, A-F and a-f with their values
HexValue ==
    [c \in 48..57 |-> c - 48] @@ [c \in 65..70 |-> c - 55]
        @@ [c \in 97..102 |-> c - 87]

\* whether a backslash, a u and four hex digits start w
IsUnitEscape(w) ==
    /\ Len(w) >= 6
    /\ w[1] = 92 /\ w[2] = 117
    /\ \A i \in 3..6 : w[i] \in DOMAIN HexValue

\* the code unit such an escape names
UnitOf(w) ==
    HexValue[w[3]] * 4096 + HexValue[w[4]] * 256 + HexValue[w[5]] * 16
        + HexValue[w[6]]

IsHigh(u) == InRange(u, 55296, 56319)

IsLow(u) == InRange(u, 56320, 57343)

\* the scalars so far and what the rest of the input gives
Then(scalar, rest) ==
    IF rest.kind = "ok"
    THEN [kind |-> "ok", scalars |-> <<scalar>> \o rest.scalars]
    ELSE rest

RECURSIVE Expected(_)
\* what the escape grammar makes of the input w, read from the left: "ok"
\* and the scalars it stands for, as long as it is made of ASCII bytes,
\* escapes of code units below 0xD800 and pairs of a high and a low
\* surrogate escape; "unicode" when the first thing that is none of these is
\* a backslash-u with fewer than four hex digits after it, a low surrogate
\* on its own or a high surrogate without a low surrogate escape right after
\* it; "other" when it is anything else
Expected(w) ==
    IF w = <<>> THEN [kind |-> "ok", scalars |-> <<>>]
    ELSE IF w[1] # 92
    THEN IF w[1] < 128 THEN Then(w[1], Expected(Tail(w)))
         ELSE [kind |-> "other"]
    ELSE IF Len(w) < 2 \/ w[2] # 117 THEN [kind |-> "other"]
    ELSE IF ~IsUnitEscape(w) THEN [kind |-> "unicode"]
    ELSE IF IsLow(UnitOf(w)) THEN [kind |-> "unicode"]
    ELSE IF IsHigh(UnitOf(w))
    THEN IF IsUnitEscape(Drop(w, 6)) /\ IsLow(UnitOf(Drop(w, 6)))
         THEN Then(65536 + (UnitOf(w) - 55296) * 1024
                         + (UnitOf(Drop(w, 6)) - 56320),
                   Expected(Drop(w, 12)))
         ELSE [kind |-> "unicode"]
    ELSE IF UnitOf(w) < 55296 THEN Then(UnitOf(w), Expected(Drop(w, 6)))
    ELSE [kind |-> "other"]

RECURSIVE Scalars(_, _)
\* the scalars of the well-formed UTF-8 sequences of b from offset p on, -1
\* standing for whatever follows the last well-formed sequence
Scalars(b, p) ==
    IF p >= Len(b) THEN <<>>
    ELSE IF RefLen(b, p, Len(b)) = 0 THEN <<-1>>
    ELSE <<RefScalar(b, p, RefLen(b, p, Len(b)))>>
             \o Scalars(b, p + RefLen(b, p, Len(b)))

\* the input of the call: the first `length` bytes of the buffer
Window == Take(text, unesc.length)

\* C11: a high surrogate escape right before a low surrogate escape decodes
\* to the one scalar 0x10000 + ((H - 0xD800) << 10) + (L - 0xDC00); a low
\* surrogate on its own, a high surrogate without a low surrogate escape
\* right after it, and a backslash-u with fewer than four hex digits before
\* the end make the call return NULL with JSON_INVALID_UNICODE; no byte at
\* or after the end of the input is read.
C11_SurrogatePairs ==
    unesc.called =>
        /\ unesc.src <= unesc.length
        /\ (Window # <<>> /\ Expected(Window).kind = "ok") =>
               /\ unesc.ret = "string"
               /\ Scalars(unesc.data, 0) = Expected(Window).scalars
        /\ Expected(Window).kind = "unicode" =>
               /\ unesc.ret = "NULL"
               /\ unesc.withError => err = "JSON_INVALID_UNICODE"

\* the escapes of D83D and DE00 decoded to U+1F600, F0 9F 98 80
C11_Witness ==
    /\ text = UEscape(68, 56, 51, 68) \o UEscape(68, 69, 48, 48)
    /\ unesc.called /\ unesc.length = 12
    /\ unesc.ret = "string" /\ unesc.data = <<240, 159, 152, 128>>

\* the same buffer with the input ending one digit early: refused, and
\* nothing read at or after the end
C11_WitnessShort ==
    /\ text = UEscape(68, 56, 51, 68) \o UEscape(68, 69, 48, 48)
    /\ unesc.called /\ unesc.withError /\ unesc.length = 11
    /\ unesc.ret = "NULL" /\ err = "JSON_INVALID_UNICODE"
    /\ unesc.src <= 11

\* a high surrogate escape followed by the escape of a letter: refused
C11_WitnessNoLow ==
    /\ text = UEscape(68, 56, 48, 48) \o UEscape(48, 48, 52, 49)
    /\ unesc.called /\ unesc.withError /\ unesc.length = 12
    /\ unesc.ret = "NULL" /\ err = "JSON_INVALID_UNICODE"

(***************************************************************************)
(* SpecArray: json_array_add calls on one value: a new array, an object,   *)
(* or an array that earlier adds have brought to a length at which the     *)
(* capacity stops doubling.  Of a long array only the elements added here  *)
(* are kept in items.  MaxAdds bounds the elements kept.                   *)
(***************************************************************************)
MaxAdds == 9

\* the greatest number of elements of an array
MaxCount == SIZE_MAX \div PointerSize

\* an array of that many elements in a buffer of that capacity, its
\* elements left out
LongArray(count, capacity) ==
    [type |-> "JSON_TYPE_ARRAY", items |-> <<>>, capacity |-> capacity,
     count |-> count]

\* 2^27, the last capacity reached by doubling
LastDoubled == 134217728

ItemSamples == {json_new_number(1), json_new_null}

InitArray ==
    /\ json \in {json_new_array, json_new_object,
                 LongArray(LastDoubled - 1, LastDoubled),
                 LongArray(MaxCount - 2, MaxCount)}
    /\ call = NoCall
    /\ IdleUtf8 /\ IdleUstring /\ IdleEscape /\ IdlePrint /\ IdleParse

\* ret = json_array_add(json, item)
ArrayAdd(item, alloc) ==
    /\ json.type = "JSON_TYPE_ARRAY" => Len(json.items) < MaxAdds
    /\ LET r == json_array_add(json, item, alloc)
       IN  /\ json' = r.json
           /\ call' = [called |-> TRUE, key |-> <<>>, value |-> item,
                       alloc |-> alloc, ret |-> r.ret, before |-> json,
                       freed |-> <<>>]
    /\ UNCHANGED <<utf8Vars, ustrVars, escVars, printVars, parseVars>>

NextArray ==
    \E item \in ItemSamples, alloc \in BOOLEAN : ArrayAdd(item, alloc)

SpecArray == InitArray /\ [][NextArray]_vars

\* C12: a json_array_add that returns true has made the array one longer,
\* with the item at the last index and every earlier element where it was,
\* and count <= capacity holds in every array; a call returns false only on
\* a value that is no Array, on an array of the greatest length, or when the
\* buffer is full and realloc fails, and then it changes nothing.
C12_ArrayAdd ==
    /\ json.type = "JSON_TYPE_ARRAY" => json.count <= json.capacity
    /\ call.called =>
        IF call.ret
        THEN /\ call.before.type = "JSON_TYPE_ARRAY"
             /\ json.type = "JSON_TYPE_ARRAY"
             /\ json.count = call.before.count + 1
             /\ json.items = Append(call.before.items, call.value)
        ELSE /\ json = call.before
             /\ \/ call.before.type # "JSON_TYPE_ARRAY"
                \/ call.before.count = MaxCount
                \/ ~call.alloc /\ call.before.count = call.before.capacity

\* the ninth add to a new array: the buffer of 8 is full and doubles to 16
C12_Witness ==
    /\ call.called /\ call.ret
    /\ call.before.count = 8 /\ call.before.capacity = 8
    /\ json.count = 9 /\ json.capacity = 16
    /\ json.items[9] = call.value

\* an add to an array of the greatest length, memory available: refused
C12_WitnessFull ==
    /\ call.called /\ ~call.ret /\ call.alloc
    /\ call.before.type = "JSON_TYPE_ARRAY"
    /\ call.before.count = MaxCount
    /\ json = call.before

\* the add that finds the last doubled buffer full: the capacity becomes the
\* greatest length instead of doubling
C12_WitnessCapped ==
    /\ call.called /\ call.ret
    /\ call.before.count = LastDoubled /\ call.before.capacity = LastDoubled
    /\ json.capacity = MaxCount

(***************************************************************************)
(* SpecLayout: one json_print call on a tree built with json_array_add     *)
(* and json_object_add: scalars, aggregates of up to MaxWidth scalars,     *)
(* aggregates of scalars and such aggregates, and aggregates one level     *)
(* deeper.                                                                 *)
(***************************************************************************)
MaxWidth == 2

RECURSIVE ArrayFrom(_, _)
\* the array that json_array_add makes of arr and the values vs, in order
ArrayFrom(arr, vs) ==
    IF vs = <<>> THEN arr
    ELSE ArrayFrom(json_array_add(arr, Head(vs), TRUE).json, Tail(vs))

ArrayOf(vs) == ArrayFrom(json_new_array, vs)

\* the keys "a", "b", "c", "d"
KeyOf(i) == <<96 + i>>

RECURSIVE ObjectFrom(_, _, _)
\* the object that json_object_add makes of obj and the values vs under the
\* keys KeyOf(i), KeyOf(i + 1), ...
ObjectFrom(obj, vs, i) ==
    IF vs = <<>> THEN obj
    ELSE ObjectFrom(json_object_add(obj, KeyOf(i), Head(vs), TRUE).json,
                    Tail(vs), i + 1)

ObjectOf(vs) == ObjectFrom(json_new_object, vs, 1)

\* the arrays and the objects of up to MaxWidth values of S
Aggregates(S) ==
    {ArrayOf(vs) : vs \in SeqsUpTo(S, MaxWidth)}
        \cup {ObjectOf(vs) : vs \in SeqsUpTo(S, MaxWidth)}

ScalarSamples ==
    {json_new_number(1), json_new_null, json_new_string(<<97>>),
     json_new_boolean(TRUE)}

FlatSamples ==
    {ArrayOf(<<>>), ArrayOf(<<json_new_number(1)>>), ObjectOf(<<json_new_null>>)}

NestedSamples ==
    {ArrayOf(<<ArrayOf(<<json_new_number(1)>>)>>),
     ObjectOf(<<json_new_null, ObjectOf(<<>>)>>)}

Trees ==
    ScalarSamples
        \cup Aggregates(ScalarSamples)
        \cup Aggregates({json_new_number(1), json_new_null} \cup FlatSamples)
        \cup Aggregates({json_new_number(1), ArrayOf(<<json_new_null>>)}
                            \cup NestedSamples)

InitLayout ==
    /\ json \in Trees
    /\ call = NoCall
    /\ str = <<>>
    /\ printed = NoPrint
    /\ IdleUtf8 /\ IdleUstring /\ IdleEscape /\ IdleParse

\* json_print(json, out)
JsonPrint ==
    /\ ~printed.called
    /\ printed' = [called |-> TRUE, ascii |-> FALSE, body |-> json_print(json)]
    /\ UNCHANGED <<str, utf8Vars, ustrVars, escVars, treeVars, parseVars>>

NextLayout == JsonPrint

SpecLayout == InitLayout /\ [][NextLayout]_vars

IsAggregate(v) == v.type \in {"JSON_TYPE_OBJECT", "JSON_TYPE_ARRAY"}

\* the immediate children of an aggregate, in order
Children(v) ==
    IF v.type = "JSON_TYPE_OBJECT"
    THEN [i \in 1..Len(v.members) |-> v.members[i].value]
    ELSE v.items

HasAggregateChild(v) ==
    \E i \in 1..Len(Children(v)) : IsAggregate(Children(v)[i])

RECURSIVE LinesAfter(_, _), ChildLines(_, _, _)
\* the lines that follow the line on which v starts, v starting on a line
\* indented by indent: for each line its indentation and whether it is a
\* closing bracket's.  An aggregate with an Object or an Array among its
\* immediate children has one line for each child, two spaces deeper, the
\* lines that follow each child's line, and the line of its closing bracket
\* at its own indentation; any other value has none
LinesAfter(v, indent) ==
    IF IsAggregate(v) /\ HasAggregateChild(v)
    THEN ChildLines(Children(v), 1, indent + 2)
             \o <<[indent |-> indent, closes |-> TRUE]>>
    ELSE <<>>

ChildLines(cs, i, indent) ==
    IF i > Len(cs) THEN <<>>
    ELSE <<[indent |-> indent, closes |-> FALSE]>>
             \o LinesAfter(cs[i], indent) \o ChildLines(cs, i + 1, indent)

\* the ends of the lines of the bytes out: 0, the indices of its newlines
\* and the index after its last byte
LineEnds(out) ==
    {0, Len(out) + 1} \cup {i \in 1..Len(out) : out[i] = 10}

\* the k-th of a set of numbers, in increasing order
Nth(S, k) == CHOOSE x \in S : Cardinality({y \in S : y < x}) = k - 1

\* the lines of the bytes out, their newlines left out
SplitLines(out) ==
    [k \in 1..(Cardinality(LineEnds(out)) - 1) |->
        SubSeq(out, Nth(LineEnds(out), k) + 1, Nth(LineEnds(out), k + 1) - 1)]

RECURSIVE LeadingSpaces(_)
LeadingSpaces(line) ==
    IF line # <<>> /\ Head(line) = 32 THEN 1 + LeadingSpaces(Tail(line)) ELSE 0

\* the indentation of a line and whether a closing bracket is its first
\* character after it
ShapeOf(line) ==
    [indent |-> LeadingSpaces(line),
     closes |-> /\ LeadingSpaces(line) < Len(line)
                /\ line[LeadingSpaces(line) + 1] \in {125, 93}]

\* the number of ", " in a line
Separators(line) ==
    Cardinality({i \in 1..(Len(line) - 1) : line[i] = 44 /\ line[i + 1] = 32})

\* the lines json_print wrote, the newline that ends the output left out
PrintedLines == SplitLines(Take(printed.body, Len(printed.body) - 1))

\* C13: an Object or Array is printed over several lines, one line for each
\* member or element two spaces deeper than the aggregate and the closing
\* bracket on a line of its own at the aggregate's indentation, if and only
\* if one of its immediate children is an Object or an Array; otherwise,
\* the empty aggregate included, it is printed on one line with ", "
\* between its children.
C13_Layout ==
    printed.called =>
        /\ [i \in 1..Len(PrintedLines) |-> ShapeOf(PrintedLines[i])]
               = <<[indent |-> 0, closes |-> FALSE]>> \o LinesAfter(json, 0)
        /\ (IsAggregate(json) /\ ~HasAggregateChild(json)) =>
               /\ Len(PrintedLines) = 1
               /\ Separators(PrintedLines[1])
                      = IF Children(json) = <<>> THEN 0
                        ELSE Len(Children(json)) - 1

\* {"a": 1, "b": [null]}: three lines after the first; the inner array
\* stays on its member's line
C13_Witness ==
    /\ json = ObjectOf(<<json_new_number(1), ArrayOf(<<json_new_null>>)>>)
    /\ printed.called
    /\ Len(PrintedLines) = 4
    /\ PrintedLines[3] = <<32, 32, 34, 98, 34, 58, 32, 91>> \o NullText \o <<93>>
    /\ PrintedLines[4] = <<125>>

\* [1, [[1]]]: the array inside the array inside the root is indented by
\* four and closed at two
C13_WitnessDeep ==
    /\ json = ArrayOf(<<json_new_number(1),
                        ArrayOf(<<ArrayOf(<<json_new_number(1)>>)>>)>>)
    /\ printed.called
    /\ [i \in 1..Len(PrintedLines) |-> ShapeOf(PrintedLines[i]).indent]
           = <<0, 2, 2, 4, 2, 0>>

\* {"a": 1, "b": true} on one line
C13_WitnessFlat ==
    /\ json = ObjectOf(<<json_new_number(1), json_new_boolean(TRUE)>>)
    /\ printed.called
    /\ Len(PrintedLines) = 1
    /\ Separators(PrintedLines[1]) = 1

(***************************************************************************)
(* SpecEndToEnd: json_parse on a document, then json_print of the tree it  *)
(* returned.  A document is an array of up to MaxElements elements, each   *)
(* the number 1, the string "xy", the object {"n": null} or the array *)
(* [1], or one of these elements on its own.                               *)
(***************************************************************************)
MaxElements == 3

\* "xy": x and the escape of the code unit 0079
STR_XY == <<34, 120, 92, 117, 48, 48, 55, 57, 34>>

\* "n"
STR_N == <<34, 110, 34>>

\* the tokens of the elements
ElementTokens ==
    { <<NUM_1>>,
      <<STR_XY>>,
      <<LBRACE, STR_N, COLON, NULL_LIT, RBRACE>>,
      <<LBRACK, NUM_1, RBRACK>> }

RECURSIVE Joined(_)
\* the elements with a comma between them
Joined(elements) ==
    IF elements = <<>> THEN <<>>
    ELSE IF Len(elements) = 1 THEN elements[1]
    ELSE elements[1] \o <<COMMA>> \o Joined(Tail(elements))

\* [ elements ]
ArrayDoc(elements) == <<LBRACK>> \o Joined(elements) \o <<RBRACK>>

ElementLists ==
    UNION {[1..n -> ElementTokens] : n \in 0..MaxElements}

EndToEndDocs ==
    ElementTokens \cup {ArrayDoc(elements) : elements \in ElementLists}

\* [1, "xy", {"n": null}]
NestedDoc ==
    ArrayDoc(<<<<NUM_1>>, <<STR_XY>>,
               <<LBRACE, STR_N, COLON, NULL_LIT, RBRACE>>>>)

InitEndToEnd ==
    /\ input \in EndToEndDocs
    /\ json_root = 0
    /\ heap = <<>>
    /\ parse = NoParse
    /\ IdleUtf8 /\ IdleUstring /\ IdleEscape /\ IdlePrint /\ IdleTree

\* json = json_parse(in, &status) with the document behind `in`
ParseInput ==
    /\ ~parse.called
    /\ LET y == yyparse(input)
           r == json_parse(y, json_root, heap)
       IN  /\ json_root' = r.json_root
           /\ heap' = r.heap
           /\ json' = IF r.ret # 0 THEN y.root ELSE json_new_null
           /\ parse' = [called   |-> TRUE,
                        calls    |-> 1,
                        outcome  |-> "returned",
                        result   |-> y.result,
                        expected |-> IF y.result = 0 THEN "JSON_SUCCESS"
                                     ELSE y.status,
                        status   |-> r.status,
                        ret      |-> r.ret,
                        tree     |-> IF y.result = 0 THEN y.root
                                     ELSE json_new_null,
                        mark     |-> Len(heap),
                        stale    |-> json_root,
                        twice    |-> r.twice]
    /\ UNCHANGED <<input, call, utf8Vars, ustrVars, escVars, printVars>>

\* json_print(json, out) of the tree json_parse returned
PrintParsed ==
    /\ parse.called /\ parse.ret # 0
    /\ ~printed.called
    /\ printed' = [called |-> TRUE, ascii |-> FALSE, body |-> json_print(json)]
    /\ UNCHANGED <<str, utf8Vars, ustrVars, escVars, treeVars, parseVars>>

NextEndToEnd == ParseInput \/ PrintParsed

SpecEndToEnd == InitEndToEnd /\ [][NextEndToEnd]_vars

\* [1, "xy", {"n": null}] and a newline
OneLineText ==
    <<91, 49, 44, 32, 34, 120, 121, 34, 44, 32,
      123, 34, 110, 34, 58, 32, 110, 117, 108, 108, 125, 93, 10>>

\* the five lines
\*   [
\*     1.000000,
\*     "xy",
\*     {"n": null}
\*   ]
\* the second and the third ending with a comma and a space
FiveLineText ==
    <<91, 10>>
    \o <<32, 32, 49, 46, 48, 48, 48, 48, 48, 48, 44, 32, 10>>
    \o <<32, 32, 34, 120, 121, 34, 44, 32, 10>>
    \o <<32, 32, 123, 34, 110, 34, 58, 32, 110, 117, 108, 108, 125, 10>>
    \o <<93, 10>>

\* the number of newlines written
NewlinesIn(out) == Cardinality({i \in 1..Len(out) : out[i] = 10})

\* whether the document is an array with an object or an array among its
\* elements
HasNestedElement ==
    /\ Len(input) > 1
    /\ \E i \in 2..Len(input) : input[i] \in {LBRACE, LBRACK}

\* C14 as stated: printing the tree parsed from [1, "xy", {"n": null}]
\* yields the single line [1, "xy", {"n": null}].
C14_PrintsOnOneLine ==
    (input = NestedDoc /\ printed.called) => printed.body = OneLineText

\* C14, amended: every document parses; printing the tree parsed from
\* [1, "xy", {"n": null}] yields five lines, the bracket, the three
\* elements at indent 2 and the closing bracket, with the number as
\* 1.000000, the string as "xy" and the inner object on one line; a printed
\* document takes one line exactly when it has no object or array among its
\* elements.
C14_EndToEnd ==
    /\ parse.called => parse.ret # 0 /\ parse.status = "JSON_SUCCESS"
    /\ printed.called =>
           /\ input = NestedDoc => printed.body = FiveLineText
           /\ NewlinesIn(printed.body) = 1 <=> ~HasNestedElement

\* the document of the claim parsed and printed
C14_Witness ==
    /\ input = NestedDoc
    /\ parse.called /\ parse.ret # 0
    /\ json.type = "JSON_TYPE_ARRAY" /\ json.count = 3
    /\ json.items[2] = json_new_string(<<120, 121>>)
    /\ printed.called /\ NewlinesIn(printed.body) = 5

\* an array of scalars parsed and printed on one line
C14_WitnessFlat ==
    /\ input = ArrayDoc(<<<<NUM_1>>, <<STR_XY>>>>)
    /\ printed.called /\ NewlinesIn(printed.body) = 1

\* C15: the string a successful json_unescape_string returns holds no NUL
\* byte before its terminator: its length as a NUL-terminated string is the
\* number of bytes the decoder produced.
C15_NoEmbeddedNul ==
    (unesc.called /\ unesc.ret = "string") =>
        Len(CString(unesc.data)) = Len(unesc.data)

\* C16: an escape of four hex digits whose code unit is no surrogate
\* (0x0000..0xD7FF, 0xE000..0xFFFF) is accepted by json_unescape_string and
\* decodes to the scalar equal to the code unit; so is the escape of FFFD,
\* which the printer writes in ASCII mode.
C16_NonSurrogateEscapes ==
    ( /\ unesc.called
      /\ Len(Window) = 6 /\ IsUnitEscape(Window)
      /\ ~IsHigh(UnitOf(Window)) /\ ~IsLow(UnitOf(Window)) ) =>
        /\ unesc.ret = "string"
        /\ Scalars(unesc.data, 0) = <<UnitOf(Window)>>

\* C17: json_parse calls are independent of each other.  A call that fails
\* frees only values built during that call: every tree an earlier call
\* built is afterwards what it was before, live if the caller owns it, and
\* no tree that was freed before is freed again.
C17_CallsIndependent ==
    [][ (parse'.called /\ parse'.ret = 0) =>
            /\ \A i \in 1..Len(heap) : heap'[i] = heap[i]
            /\ ~parse'.twice ]_vars

(***************************************************************************)
(* SpecPrintLoop: json_print_string, one step for each iteration of its    *)
(* for loop.  The text is up to MaxPieces pieces: the characters and stray *)
(* bytes of StrChunks, runs of continuation bytes, a four-byte lead before *)
(* four continuation bytes, and sequences cut short.  printed.p is the     *)
(* cursor p as an offset into the text, printed.body the bytes written     *)
(* after the opening quote.                                                *)
(***************************************************************************)
MaxPieces == 2

LoopPieces ==
    StrChunks
    \cup { <<128, 128, 128, 128, 128>>,
           <<240, 128, 128, 128, 128>>,
           <<226, 130>>,
           <<240, 159, 152>> }

NoLoop ==
    [called |-> FALSE, ascii |-> FALSE, body |-> <<>>, p |-> 0,
     done |-> FALSE, iterations |-> 0, start |-> 0, ok |-> TRUE, code |-> 0,
     wrote |-> <<>>]

InitPrintLoop ==
    /\ str \in {Concat(ss) : ss \in SeqsUpTo(LoopPieces, MaxPieces)}
    /\ printed = NoLoop
    /\ IdleUtf8 /\ IdleUstring /\ IdleEscape /\ IdleTree /\ IdleParse

\* the call json_print_string(str, out, ascii) up to the loop: the opening
\* quote, length = strlen(text), end = text + length, p = text
EnterPrintString(ascii) ==
    /\ ~printed.called
    /\ printed' = [NoLoop EXCEPT !.called = TRUE, !.ascii = ascii]
    /\ UNCHANGED <<str, utf8Vars, ustrVars, escVars, treeVars, parseVars>>

\* one iteration of for (p = text; *p; ): the byte at p is not the
\* terminator
LoopIteration ==
    /\ printed.called /\ ~printed.done
    /\ printed.p < Len(str)
    /\ LET it == print_string_iteration(str, printed.p, Len(str),
                                        printed.ascii)
       IN  printed' = [printed EXCEPT !.p = it.p,
                                      !.body = @ \o it.wrote,
                                      !.iterations = @ + 1,
                                      !.start = printed.p,
                                      !.ok = it.ok,
                                      !.code = it.code,
                                      !.wrote = it.wrote]
    /\ UNCHANGED <<str, utf8Vars, ustrVars, escVars, treeVars, parseVars>>

\* the loop test reads the terminator: the closing quote and the return
LeavePrintString ==
    /\ printed.called /\ ~printed.done
    /\ printed.p = Len(str)
    /\ printed' = [printed EXCEPT !.done = TRUE]
    /\ UNCHANGED <<str, utf8Vars, ustrVars, escVars, treeVars, parseVars>>

NextPrintLoop ==
    \/ \E ascii \in BOOLEAN : EnterPrintString(ascii)
    \/ LoopIteration
    \/ LeavePrintString

\* a call that was entered runs on: the loop is code of one thread
SpecPrintLoop ==
    InitPrintLoop /\ [][NextPrintLoop]_vars /\ WF_vars(NextPrintLoop)

\* the character a two-character escape stands for
TwoCharacterEscapes ==
    (34 :> 34) @@ (92 :> 92) @@ (47 :> 47) @@ (98 :> 8) @@ (102 :> 12)
        @@ (110 :> 10) @@ (114 :> 13) @@ (116 :> 9)

\* whether w is one JSON spelling of the scalar, given the bytes of its
\* UTF-8 sequence: these bytes (not for a control character, a quote or a
\* backslash), a two-character escape, the escape of its code unit, or the
\* escapes of its surrogate pair
SpellsOnce(w, scalar, bytes) ==
    \/ w = bytes /\ scalar >= 32 /\ scalar \notin {34, 92}
    \/ /\ Len(w) = 2 /\ w[1] = 92
       /\ w[2] \in DOMAIN TwoCharacterEscapes
       /\ TwoCharacterEscapes[w[2]] = scalar
    \/ Len(w) = 6 /\ IsUnitEscape(w) /\ UnitOf(w) = scalar
    \/ /\ Len(w) = 12 /\ IsUnitEscape(w) /\ IsUnitEscape(Drop(w, 6))
       /\ IsHigh(UnitOf(w)) /\ IsLow(UnitOf(Drop(w, 6)))
       /\ scalar = 65536 + (UnitOf(w) - 55296) * 1024
                         + (UnitOf(Drop(w, 6)) - 56320)

\* U+FFFD as EF BF BD, or as its escape in ASCII mode
ReplacementMarker(ascii) ==
    IF ascii THEN <<92, 117, 70, 70, 70, 68>> ELSE <<239, 191, 189>>

\* what holds of the cursor and of the last iteration
LoopFacts ==
    /\ printed.p <= Len(str)
    /\ printed.iterations <= Len(str)
    /\ printed.iterations > 0 =>
           /\ printed.start < printed.p
           /\ printed.ok =>
                  /\ RefLen(str, printed.start, Len(str))
                         = printed.p - printed.start
                  /\ RefScalar(str, printed.start,
                               printed.p - printed.start) = printed.code
                  /\ SpellsOnce(printed.wrote, printed.code,
                                SubSeq(str, printed.start + 1, printed.p))
                  /\ printed.ascii =>
                         \A i \in 1..Len(printed.wrote) :
                             printed.wrote[i] < 128
           /\ ~printed.ok =>
                  /\ RefLen(str, printed.start, Len(str)) = 0
                  /\ printed.wrote = ReplacementMarker(printed.ascii)
                  /\ printed.p - printed.start <= 4
                  /\ \A k \in (printed.start + 1)..(printed.p - 1) :
                         IsContinuation(str[k + 1])
    /\ printed.done =>
           /\ printed.p = Len(str)
           /\ printed.body = json_print_string(str, printed.ascii)

\* C18: json_print_string always terminates.  The cursor advances in every
\* iteration of the loop and never passes the terminator; an iteration whose
\* decode fails writes one replacement marker (EF BF BD, or the escape of
\* FFFD in ASCII mode) and consumes the failing byte and at most three
\* continuation bytes after it; an iteration whose decode succeeds writes
\* the decoded scalar once; every call reaches its return.
C18_PrintStringTerminates ==
    []LoopFacts /\ (printed.called ~> printed.done)

\* five continuation bytes printed: the first iteration consumed four of
\* them, the second the last, each writing one marker
C18_Witness ==
    /\ str = <<128, 128, 128, 128, 128>>
    /\ printed.done /\ ~printed.ascii
    /\ printed.iterations = 2 /\ printed.start = 4 /\ ~printed.ok
    /\ printed.body = <<239, 191, 189, 239, 191, 189>>

\* U+1F600 printed in ASCII mode as the escapes of D83D and DE00
C18_WitnessDecoded ==
    /\ str = <<240, 159, 152, 128>>
    /\ printed.done /\ printed.ascii
    /\ printed.iterations = 1 /\ printed.ok /\ printed.code = 128512
    /\ printed.wrote = UEscape(68, 56, 51, 68) \o UEscape(68, 69, 48, 48)

=============================================================================
